---- MODULE Spec2Model ----
(***************************************************************************)
(* Model of loveyourstack/connectors, ECB part:                            *)
(*   csyncdb.EcbExchangeRates / csyncdb.EcbCurrencies  (reconciliation of  *)
(*     an API snapshot with the rows of the store),                        *)
(*   ecbapi.GetExchangeRatesMap, ecbexchangerate.Store.SelectMapByNaturalKey *)
(*     (snapshot builders),                                                *)
(*   ecbexchangerate.Store.SelectLatestDaily / SelectLatestDailyRangeMap   *)
(*     (carry-forward lookups).                                            *)
(*                                                                         *)
(* Calendar days are integers; a month is MonthLen consecutive days.       *)
(* Rates are integers in units of 0.00001.                                 *)
(***************************************************************************)
EXTENDS Integers, Sequences, FiniteSets, TLC

VARIABLES
    pc,             \* position of the running operation
    err,            \* error returned by the running operation ("" = nil)
    entity,         \* which operation family the behaviour exercises
    freq,           \* EcbExchangeRates parameter freq
    startDate,      \* EcbExchangeRates parameter startDate
    endDate,        \* EcbExchangeRates parameter endDate
    pub,            \* what the ECB API serves: observations, or code -> name
    rateDb,         \* table ecb.exchange_rate, ordered by id
    currDb,         \* table ecb.currency, ordered by id
    nextId,         \* next id the store assigns
    run,            \* number of the reconciliation run (1-based)
    apiItemsMap,    \* snapshot built from the API
    dbItemsMap,     \* snapshot built from the store
    newItems,       \* []Input to insert
    updatedItems,   \* map db id -> Input
    deletedItems,   \* []Model to delete
    idx,            \* position in deletedItems during the delete phase
    todo,           \* keys a map iteration has not visited yet
    calls,          \* persistence mutator calls of the current run
    swNewItems,     \* the diff with the two snapshots exchanged
    swUpdatedItems,
    swDeletedItems,
    series,         \* rows of v_exchange_rate for one currency pair, day DESC
    startDay,       \* SelectLatestDailyRangeMap parameter startDay
    endDay,         \* parameter endDay (also SelectLatestDaily's day)
    items,          \* rows the query returned
    d,              \* loop variable of the range walk
    activeLatest,   \* cursor of the range walk
    rangeMap,       \* result of SelectLatestDailyRangeMap
    latestItem      \* result of SelectLatestDaily

vars == <<pc, err, entity, freq, startDate, endDate, pub, rateDb, currDb,
          nextId, run, apiItemsMap, dbItemsMap, newItems, updatedItems,
          deletedItems, idx, todo, calls, swNewItems, swUpdatedItems,
          swDeletedItems, series, startDay, endDay, items, d, activeLatest,
          rangeMap, latestItem>>

syncVars == <<entity, freq, startDate, endDate, pub, rateDb, currDb, nextId,
              run, idx, todo, calls>>
diffVars == <<apiItemsMap, dbItemsMap, newItems, updatedItems, deletedItems>>
swapVars == <<swNewItems, swUpdatedItems, swDeletedItems>>
fillVars == <<series, startDay, endDay, items, d, activeLatest, rangeMap,
              latestItem>>

----------------------------------------------------------------------------
(* Bounds of the model *)

MaxDay == 2         \* reconciliation: days 0..MaxDay
MonthLen == 2       \* days per month of the model calendar
MaxRows == 2        \* length of a list handed to a snapshot builder
MaxRuns == 2        \* consecutive reconciliation runs
FillMaxDay == 7     \* carry-forward: days 0..FillMaxDay
MaxItems == 3       \* rows of the series

Days == 0..MaxDay
Months == 0..(MaxDay \div MonthLen)
FillDays == 0..FillMaxDay

\* rates the API publishes, rates initially stored: 1.00100/1.00104 print
\* alike with four decimals, 1.00110 does not
ApiRates == {100104, 100110}
DbRates == {100100}

Daily == "D"
Monthly == "M"
BaseCurr == "EUR"
ToCurr == "USD"
Codes == {BaseCurr, ToCurr, "GBP"}
Names == {"a", "b"}

----------------------------------------------------------------------------
(* Generic helpers *)

Range(s) == {s[i] : i \in 1..Len(s)}

MapPut(m, k, v) == [x \in (DOMAIN m) \cup {k} |-> IF x = k THEN v ELSE m[x]]

EmptyMap == [x \in {} |-> 0]

\* every order in which a Go map with key set S can be iterated
Orders(S) == {s \in [1..Cardinality(S) -> S] :
                \A i, j \in 1..Cardinality(S) : i # j => s[i] # s[j]}

SeqsUpTo(S, n) == UNION {[1..k -> S] : k \in 0..n}

----------------------------------------------------------------------------
(* Dates: time.Time.Format / time.Parse with lystype.DateFormat             *)
(* "2006-01-02" and with "2006-01"                                          *)

DateFormat(day) == <<day \div MonthLen, day % MonthLen>>

MonthFormat(day) == <<day \div MonthLen>>

ParseDate(s) == s[1] * MonthLen + s[2]

ParseMonth(s) == s[1] * MonthLen

\* the natural key day+"+"+toCurrFk
NaturalKey(day, toCurrFk) == <<DateFormat(day), toCurrFk>>

----------------------------------------------------------------------------
(* ecbexchangerate: Input, Model, Equal *)

InputOf(m) == [Day |-> m.Day, Frequency |-> m.Frequency,
               FromCurrencyFk |-> m.FromCurrencyFk, Rate |-> m.Rate,
               ToCurrencyFk |-> m.ToCurrencyFk]

ModelOf(id, in) == [Id |-> id, Day |-> in.Day, Frequency |-> in.Frequency,
                    FromCurrencyFk |-> in.FromCurrencyFk, Rate |-> in.Rate,
                    ToCurrencyFk |-> in.ToCurrencyFk]

\* fmt.Sprintf("%.4f", rate): the rate rounded to four decimals
Sprintf4f(rate) == (rate + 5) \div 10

RateEqual(a, b) == Sprintf4f(a.Rate) = Sprintf4f(b.Rate)

\* ecbcurrency.Store.Equal
CurrEqual(a, b) == a.Name = b.Name

----------------------------------------------------------------------------
(* The diff loops of EcbExchangeRates *)

EmptyDiff == [newItems |-> <<>>, updatedItems |-> EmptyMap, deletedItems |-> <<>>]

\* DiffApiItem without the "continue" of the not-found branch: the item is
\* then also compared with the zero Model and filed under id 0
DiffApiItem_NoContinue(acc, key, api, db) ==
    IF key \notin DOMAIN db
      THEN [acc EXCEPT !.newItems = Append(@, InputOf(api[key])),
                       !.updatedItems = MapPut(@, 0, InputOf(api[key]))]
      ELSE IF ~RateEqual(api[key], db[key])
             THEN [acc EXCEPT !.updatedItems =
                                 MapPut(@, db[key].Id, InputOf(api[key]))]
             ELSE acc

\* DiffApiItem filing an update under the API item's id
DiffApiItem_ApiId(acc, key, api, db) ==
    IF key \notin DOMAIN db
      THEN [acc EXCEPT !.newItems = Append(@, InputOf(api[key]))]
      ELSE IF ~RateEqual(api[key], db[key])
             THEN [acc EXCEPT !.updatedItems =
                                 MapPut(@, api[key].Id, InputOf(api[key]))]
             ELSE acc

\* body of "for key, apiItem := range apiItemsMap"
DiffApiItem(acc, key, api, db) ==
    IF key \notin DOMAIN db
      THEN [acc EXCEPT !.newItems = Append(@, InputOf(api[key]))]
      ELSE IF ~RateEqual(api[key], db[key])
             THEN [acc EXCEPT !.updatedItems =
                                 MapPut(@, db[key].Id, InputOf(api[key]))]
             ELSE acc

\* DiffDbItem with the test inverted
DiffDbItem_Inverted(acc, key, api, db) ==
    IF key \in DOMAIN api
      THEN [acc EXCEPT !.deletedItems = Append(@, db[key])]
      ELSE acc

\* body of "for key, dbItem := range dbItemsMap"
DiffDbItem(acc, key, api, db) ==
    IF key \notin DOMAIN api
      THEN [acc EXCEPT !.deletedItems = Append(@, db[key])]
      ELSE acc

RECURSIVE DiffApiLoop(_, _, _, _)
DiffApiLoop(acc, order, api, db) ==
    IF order = <<>> THEN acc
    ELSE DiffApiLoop(DiffApiItem(acc, Head(order), api, db), Tail(order), api, db)

RECURSIVE DiffDbLoop(_, _, _, _)
DiffDbLoop(acc, order, api, db) ==
    IF order = <<>> THEN acc
    ELSE DiffDbLoop(DiffDbItem(acc, Head(order), api, db), Tail(order), api, db)

----------------------------------------------------------------------------
(* Natural keys held by the three result collections *)

NewKeys(new) == {NaturalKey(in.Day, in.ToCurrencyFk) : in \in Range(new)}

UpdKeys(upd) == {NaturalKey(upd[id].Day, upd[id].ToCurrencyFk) : id \in DOMAIN upd}

DelKeys(del) == {NaturalKey(m.Day, m.ToCurrencyFk) : m \in Range(del)}

----------------------------------------------------------------------------
(* ecbapi: GetAPIExchangeRates, apiExchangeRateToItem, GetExchangeRates,    *)
(* GetExchangeRatesMap                                                      *)

\* order of two TIME_PERIOD values of the same format
PeriodLeq(a, b) == \/ a[1] < b[1]
                   \/ a[1] = b[1] /\ (Len(a) = 1 \/ a[2] <= b[2])

\* the parsed CSV lines the API answers with, or the error
GetAPIExchangeRates(served, baseCurr, fr, start, end) ==
    IF start > end
      THEN [err |-> "startDate must be before endDate", exRates |-> <<>>]
    ELSE IF fr \notin {Daily, Monthly}
      THEN [err |-> "invalid freq", exRates |-> <<>>]
    ELSE
      LET startPeriod == IF fr = Daily THEN DateFormat(start) ELSE MonthFormat(start)
          endPeriod == IF fr = Daily THEN DateFormat(end) ELSE MonthFormat(end)
          InParams(o) == /\ o.Freq = fr
                         /\ PeriodLeq(startPeriod, o.TimePeriod)
                         /\ PeriodLeq(o.TimePeriod, endPeriod)
          lines == SelectSeq(served, InParams)
      IN IF lines = <<>>
           THEN [err |-> "no rates found for these params", exRates |-> <<>>]
           ELSE [err |-> "",
                 exRates |-> [i \in 1..Len(lines) |->
                                [FromCurr |-> baseCurr, ToCurr |-> lines[i].Currency,
                                 Freq |-> fr, PeriodStr |-> lines[i].TimePeriod,
                                 Rate |-> lines[i].ObsValue]]]

apiExchangeRateToItem(apiItem, currMap) ==
    IF apiItem.Freq \notin {Daily, Monthly}
      THEN [err |-> "invalid frequency", item |-> <<>>]
    ELSE IF apiItem.FromCurr \notin DOMAIN currMap
      THEN [err |-> "from currency code not in map", item |-> <<>>]
    ELSE IF apiItem.ToCurr \notin DOMAIN currMap
      THEN [err |-> "to currency code not in map", item |-> <<>>]
    ELSE [err |-> "",
          item |-> [Day |-> IF apiItem.Freq = Daily THEN ParseDate(apiItem.PeriodStr)
                                                    ELSE ParseMonth(apiItem.PeriodStr),
                    Frequency |-> apiItem.Freq,
                    FromCurrencyFk |-> currMap[apiItem.FromCurr],
                    Rate |-> apiItem.Rate,
                    ToCurrencyFk |-> currMap[apiItem.ToCurr]]]

RECURSIVE ToItemsLoop(_, _, _)
ToItemsLoop(acc, apiItems, currMap) ==
    IF apiItems = <<>> THEN [err |-> "", items |-> acc]
    ELSE LET r == apiExchangeRateToItem(Head(apiItems), currMap)
         IN IF r.err # "" THEN [err |-> r.err, items |-> <<>>]
            ELSE ToItemsLoop(Append(acc, r.item), Tail(apiItems), currMap)

GetExchangeRates(served, baseCurr, fr, start, end, currMap) ==
    LET a == GetAPIExchangeRates(served, baseCurr, fr, start, end)
    IN IF a.err # "" THEN [err |-> a.err, items |-> <<>>]
       ELSE ToItemsLoop(<<>>, a.exRates, currMap)

\* "itemsMap[key] = item" for every input, in list order
RECURSIVE ApiMapLoop(_, _)
ApiMapLoop(m, inputs) ==
    IF inputs = <<>> THEN m
    ELSE ApiMapLoop(MapPut(m, NaturalKey(Head(inputs).Day, Head(inputs).ToCurrencyFk),
                           ModelOf(0, Head(inputs))),
                    Tail(inputs))

GetExchangeRatesMap(served, baseCurr, fr, start, end, currMap) ==
    LET g == GetExchangeRates(served, baseCurr, fr, start, end, currMap)
    IN IF g.err # "" THEN [err |-> g.err, itemsMap |-> EmptyMap]
       ELSE [err |-> "", itemsMap |-> ApiMapLoop(EmptyMap, g.items)]

----------------------------------------------------------------------------
(* ecbexchangerate.Store and ecbcurrency.Store: queries *)

\* the code of a currency row, as the view v_exchange_rate joins it
CurrencyCode(currRows, id) == (CHOOSE c \in Range(currRows) : c.Id = id).Code

\* Store.Select with the four conditions of SelectMapByNaturalKey
RateSelect(rows, currRows, baseCurr, fr, start, end) ==
    LET Cond(r) == /\ CurrencyCode(currRows, r.FromCurrencyFk) = baseCurr
                   /\ r.Frequency = fr
                   /\ r.Day >= ParseDate(DateFormat(start))
                   /\ r.Day <= ParseDate(DateFormat(end))
    IN SelectSeq(rows, Cond)

RECURSIVE DbMapLoop(_, _)
DbMapLoop(m, rows) ==
    IF rows = <<>> THEN m
    ELSE DbMapLoop(MapPut(m, NaturalKey(Head(rows).Day, Head(rows).ToCurrencyFk),
                          ModelOf(Head(rows).Id, InputOf(Head(rows)))),
                   Tail(rows))

SelectMapByNaturalKey(rows, currRows, baseCurr, fr, start, end) ==
    DbMapLoop(EmptyMap, RateSelect(rows, currRows, baseCurr, fr, start, end))

\* ecbcurrency.Store.SelectMapByNaturalKey
RECURSIVE CurrMapLoop(_, _)
CurrMapLoop(m, rows) ==
    IF rows = <<>> THEN m
    ELSE CurrMapLoop(MapPut(m, Head(rows).Code, Head(rows)), Tail(rows))

CurrSelectMapByNaturalKey(currRows) == CurrMapLoop(EmptyMap, currRows)

\* ecbcurrency.Store.SelectCodeIdMap
RECURSIVE CodeIdLoop(_, _)
CodeIdLoop(m, rows) ==
    IF rows = <<>> THEN m
    ELSE CodeIdLoop(MapPut(m, Head(rows).Code, Head(rows).Id), Tail(rows))

SelectCodeIdMap(currRows) == CodeIdLoop(EmptyMap, currRows)

\* ecbapi.Client.GetCurrenciesMap: code -> Model without identity
GetCurrenciesMap(served) ==
    [code \in DOMAIN served |-> [Id |-> 0, Code |-> code, Name |-> served[code]]]

----------------------------------------------------------------------------
(* Store mutators (lyspg): the effect of a successful call *)

DeleteRow(rows, id) == LET Keep(r) == r.Id # id IN SelectSeq(rows, Keep)

RECURSIVE InsertRows(_, _, _)
InsertRows(rows, inputs, id) ==
    IF inputs = <<>> THEN rows
    ELSE InsertRows(Append(rows, ModelOf(id, Head(inputs))), Tail(inputs), id + 1)

UpdateRow(rows, input, id) ==
    [i \in 1..Len(rows) |-> IF rows[i].Id = id THEN ModelOf(id, input) ELSE rows[i]]

CurrInsertRow(rows, input, id) ==
    Append(rows, [Id |-> id, Code |-> input.Code, Name |-> input.Name])

CurrUpdateRow(rows, input, id) ==
    [i \in 1..Len(rows) |->
       IF rows[i].Id = id THEN [Id |-> id, Code |-> input.Code, Name |-> input.Name]
       ELSE rows[i]]

----------------------------------------------------------------------------
(* Control flow of EcbExchangeRates after the diff *)

\* inserts before deletes
PhaseAfter_InsertsFirst(phase) ==
    CASE phase = "db_loop" -> "inserts"
      [] phase = "inserts" -> "deletes"
      [] phase = "deletes" -> "updates"
      [] OTHER -> "done"

\* "run deletes", "run inserts (bulk)", "run updates", "return nil"
PhaseAfter(phase) ==
    CASE phase = "db_loop" -> "deletes"
      [] phase = "deletes" -> "inserts"
      [] phase = "inserts" -> "updates"
      [] OTHER -> "done"

\* going on after a failed call
AfterCall_IgnoreError(ok, next) == next

\* "if err != nil { return fmt.Errorf(...) }" after a mutator call
AfterCall(ok, next) == IF ok THEN next ELSE "failed"

----------------------------------------------------------------------------
(* The diff as a function of two snapshots: specification SpecDiff *)

\* a snapshot as GetExchangeRatesMap builds it: no identity (Id = 0)
ApiSnapshots ==
    UNION {{[k \in {NaturalKey(day, 2) : day \in K} |->
               [Id |-> 0, Day |-> ParseDate(k[1]), Frequency |-> Daily,
                FromCurrencyFk |-> 1, Rate |-> r[ParseDate(k[1])],
                ToCurrencyFk |-> 2]] : r \in [K -> ApiRates]} : K \in SUBSET Days}

\* a snapshot as SelectMapByNaturalKey builds it: the rows' own ids
DbSnapshots ==
    UNION {{[k \in {NaturalKey(day, 2) : day \in K} |->
               [Id |-> ParseDate(k[1]) + 1, Day |-> ParseDate(k[1]),
                Frequency |-> Daily, FromCurrencyFk |-> 1,
                Rate |-> r[ParseDate(k[1])], ToCurrencyFk |-> 2]] :
             r \in [K -> DbRates \cup {100110}]} : K \in SUBSET Days}

FillIdle ==
    /\ series = <<>> /\ startDay = 0 /\ endDay = 0 /\ items = <<>>
    /\ d = 0 /\ activeLatest = 0 /\ rangeMap = EmptyMap /\ latestItem = <<>>

SwapIdle == swNewItems = <<>> /\ swUpdatedItems = EmptyMap /\ swDeletedItems = <<>>

InitDiff ==
    /\ pc = "api_loop" /\ err = "" /\ entity = "diff"
    /\ freq = Daily /\ startDate = 0 /\ endDate = MaxDay
    /\ pub = EmptyMap /\ rateDb = <<>> /\ currDb = <<>> /\ nextId = 1
    /\ run = 1 /\ idx = 1 /\ todo = {} /\ calls = <<>>
    /\ apiItemsMap \in ApiSnapshots
    /\ dbItemsMap \in DbSnapshots
    /\ newItems = <<>> /\ updatedItems = EmptyMap /\ deletedItems = <<>>
    /\ SwapIdle /\ FillIdle

\* first loop of the diff, in any map iteration order
ApiItemsLoop ==
    /\ pc = "api_loop"
    /\ \E order \in Orders(DOMAIN apiItemsMap) :
         LET acc == DiffApiLoop(EmptyDiff, order, apiItemsMap, dbItemsMap)
         IN /\ newItems' = acc.newItems
            /\ updatedItems' = acc.updatedItems
    /\ pc' = "db_loop"
    /\ UNCHANGED <<err, syncVars, apiItemsMap, dbItemsMap, deletedItems,
                   swapVars, fillVars>>

\* second loop of the diff
DbItemsLoop ==
    /\ pc = "db_loop"
    /\ \E order \in Orders(DOMAIN dbItemsMap) :
         deletedItems' = DiffDbLoop(EmptyDiff, order, apiItemsMap, dbItemsMap).deletedItems
    /\ pc' = IF entity = "diff" THEN "swap_api" ELSE PhaseAfter("db_loop")
    /\ idx' = 1
    /\ todo' = DOMAIN updatedItems
    /\ UNCHANGED <<err, entity, freq, startDate, endDate, pub, rateDb, currDb,
                   nextId, run, calls, apiItemsMap, dbItemsMap, newItems,
                   updatedItems, swapVars, fillVars>>

\* the same two loops with the snapshots exchanged
SwapApiLoop ==
    /\ pc = "swap_api"
    /\ \E order \in Orders(DOMAIN dbItemsMap) :
         LET acc == DiffApiLoop(EmptyDiff, order, dbItemsMap, apiItemsMap)
         IN /\ swNewItems' = acc.newItems
            /\ swUpdatedItems' = acc.updatedItems
    /\ pc' = "swap_db"
    /\ UNCHANGED <<err, syncVars, diffVars, swDeletedItems, fillVars>>

SwapDbLoop ==
    /\ pc = "swap_db"
    /\ \E order \in Orders(DOMAIN apiItemsMap) :
         swDeletedItems' = DiffDbLoop(EmptyDiff, order, dbItemsMap, apiItemsMap).deletedItems
    /\ pc' = "swap_done"
    /\ UNCHANGED <<err, syncVars, diffVars, swNewItems, swUpdatedItems, fillVars>>

NextDiff == ApiItemsLoop \/ DbItemsLoop \/ SwapApiLoop \/ SwapDbLoop

SpecDiff == InitDiff /\ [][NextDiff]_vars

----------------------------------------------------------------------------
(* Reconciliation runs: specification Spec *)

CodeSeq == <<"EUR", "USD", "GBP">>

\* the observations the API holds for frequency fr: f gives the rate published
\* for a period (a day, or a month), 0 for none
RECURSIVE ObsFrom(_, _, _)
ObsFrom(f, fr, p) ==
    IF p \notin DOMAIN f THEN <<>>
    ELSE (IF f[p] = 0 THEN <<>>
          ELSE <<[Freq |-> fr, Currency |-> ToCurr,
                  TimePeriod |-> IF fr = Daily THEN DateFormat(p) ELSE <<p>>,
                  ObsValue |-> f[p]]>>)
         \o ObsFrom(f, fr, p + 1)

\* rows of ecb.exchange_rate, one per day of DOMAIN r, ids from id on
RECURSIVE RowsFrom(_, _, _, _)
RowsFrom(r, fr, day, id) ==
    IF day > MaxDay THEN <<>>
    ELSE IF day \in DOMAIN r
      THEN <<[Id |-> id, Day |-> day, Frequency |-> fr, FromCurrencyFk |-> 1,
              Rate |-> r[day], ToCurrencyFk |-> 2]>> \o RowsFrom(r, fr, day + 1, id + 1)
      ELSE RowsFrom(r, fr, day + 1, id)

\* rows of ecb.currency, one per code of DOMAIN n
RECURSIVE CurrRowsFrom(_, _, _)
CurrRowsFrom(n, i, id) ==
    IF i > Len(CodeSeq) THEN <<>>
    ELSE IF CodeSeq[i] \in DOMAIN n
      THEN <<[Id |-> id, Code |-> CodeSeq[i], Name |-> n[CodeSeq[i]]]>>
           \o CurrRowsFrom(n, i + 1, id + 1)
      ELSE CurrRowsFrom(n, i + 1, id)

FullCurrDb == <<[Id |-> 1, Code |-> BaseCurr, Name |-> "a"],
                [Id |-> 2, Code |-> ToCurr, Name |-> "b"]>>

DiffIdle ==
    /\ apiItemsMap = EmptyMap /\ dbItemsMap = EmptyMap
    /\ newItems = <<>> /\ updatedItems = EmptyMap /\ deletedItems = <<>>

InitRates ==
    /\ pc = "idle" /\ err = "" /\ entity = "rates" /\ run = 1
    /\ freq \in {Daily, Monthly}
    /\ startDate \in Days
    /\ endDate \in startDate..MaxDay
    /\ pub \in {ObsFrom(f, freq, 0) :
                 f \in [IF freq = Daily THEN Days ELSE Months -> ApiRates \cup {0}]}
    /\ rateDb \in UNION {{RowsFrom(r, freq, 0, 1) : r \in [K -> DbRates]} :
                          K \in SUBSET Days}
    /\ currDb \in {<<>>, FullCurrDb}
    /\ nextId = Len(rateDb) + 1
    /\ idx = 1 /\ todo = {} /\ calls = <<>>
    /\ DiffIdle /\ SwapIdle /\ FillIdle

InitCurr ==
    /\ pc = "idle" /\ err = "" /\ entity = "currencies" /\ run = 1
    /\ freq = Daily /\ startDate = 0 /\ endDate = 0
    /\ pub \in UNION {[K -> Names] : K \in SUBSET Codes}
    /\ rateDb = <<>>
    /\ currDb \in UNION {{CurrRowsFrom(n, 1, 1) : n \in [K -> Names]} :
                          K \in SUBSET Codes}
    /\ nextId = Len(currDb) + 1
    /\ idx = 1 /\ todo = {} /\ calls = <<>>
    /\ DiffIdle /\ SwapIdle /\ FillIdle

Init == InitRates \/ InitCurr

\* EcbExchangeRates up to the diff: the three reads
RatesBegin ==
    /\ pc = "idle" /\ entity = "rates"
    /\ LET currMap == SelectCodeIdMap(currDb)
           api == GetExchangeRatesMap(pub, BaseCurr, freq, startDate, endDate, currMap)
       IN IF currMap = EmptyMap
            THEN /\ err' = "no currencies found: pls sync currencies first"
                 /\ pc' = "failed"
                 /\ UNCHANGED <<apiItemsMap, dbItemsMap>>
          ELSE IF api.err # ""
            THEN /\ err' = api.err
                 /\ pc' = "failed"
                 /\ UNCHANGED <<apiItemsMap, dbItemsMap>>
          ELSE /\ err' = ""
               /\ pc' = "api_loop"
               /\ apiItemsMap' = api.itemsMap
               /\ dbItemsMap' = SelectMapByNaturalKey(rateDb, currDb, BaseCurr, freq,
                                                      startDate, endDate)
    /\ newItems' = <<>> /\ updatedItems' = EmptyMap /\ deletedItems' = <<>>
    /\ calls' = <<>> /\ idx' = 1 /\ todo' = {}
    /\ UNCHANGED <<entity, freq, startDate, endDate, pub, rateDb, currDb, nextId,
                   run, swapVars, fillVars>>

\* one iteration of "for _, dbItem := range deletedItems"
RunDelete ==
    /\ pc = "deletes" /\ idx <= Len(deletedItems)
    /\ \E ok \in BOOLEAN :
         /\ calls' = Append(calls, [op |-> "delete", id |-> deletedItems[idx].Id,
                                    ok |-> ok])
         /\ rateDb' = IF ok THEN DeleteRow(rateDb, deletedItems[idx].Id) ELSE rateDb
         /\ idx' = IF ok THEN idx + 1 ELSE idx
         /\ err' = IF ok THEN err ELSE "itemStore.Delete failed"
         /\ pc' = AfterCall(ok, "deletes")
    /\ UNCHANGED <<entity, freq, startDate, endDate, pub, currDb, nextId, run, todo,
                   diffVars, swapVars, fillVars>>

DeletesDone ==
    /\ pc = "deletes" /\ idx > Len(deletedItems)
    /\ pc' = PhaseAfter("deletes")
    /\ UNCHANGED <<err, syncVars, diffVars, swapVars, fillVars>>

RunBulkInsert ==
    /\ pc = "inserts" /\ Len(newItems) > 0
    /\ \E ok \in BOOLEAN :
         /\ calls' = Append(calls, [op |-> "insert", id |-> 0, ok |-> ok])
         /\ rateDb' = IF ok THEN InsertRows(rateDb, newItems, nextId) ELSE rateDb
         /\ nextId' = IF ok THEN nextId + Len(newItems) ELSE nextId
         /\ err' = IF ok THEN err ELSE "itemStore.BulkInsert failed"
         /\ pc' = AfterCall(ok, PhaseAfter("inserts"))
    /\ UNCHANGED <<entity, freq, startDate, endDate, pub, currDb, run, idx, todo,
                   diffVars, swapVars, fillVars>>

InsertsSkipped ==
    /\ pc = "inserts" /\ Len(newItems) = 0
    /\ pc' = PhaseAfter("inserts")
    /\ UNCHANGED <<err, syncVars, diffVars, swapVars, fillVars>>

\* one iteration of "for dbId, apiInput := range updatedItems"
RunUpdate ==
    /\ pc = "updates"
    /\ \E dbId \in todo, ok \in BOOLEAN :
         /\ calls' = Append(calls, [op |-> "update", id |-> dbId, ok |-> ok])
         /\ rateDb' = IF ok THEN UpdateRow(rateDb, updatedItems[dbId], dbId) ELSE rateDb
         /\ todo' = todo \ {dbId}
         /\ err' = IF ok THEN err ELSE "itemStore.Update failed"
         /\ pc' = AfterCall(ok, "updates")
    /\ UNCHANGED <<entity, freq, startDate, endDate, pub, currDb, nextId, run, idx,
                   diffVars, swapVars, fillVars>>

UpdatesDone ==
    /\ pc = "updates" /\ todo = {}
    /\ pc' = PhaseAfter("updates")
    /\ UNCHANGED <<err, syncVars, diffVars, swapVars, fillVars>>

\* EcbCurrencies: the two reads
CurrBegin ==
    /\ pc = "idle" /\ entity = "currencies"
    /\ apiItemsMap' = GetCurrenciesMap(pub)
    /\ dbItemsMap' = CurrSelectMapByNaturalKey(currDb)
    /\ todo' = DOMAIN pub
    /\ pc' = "curr_api"
    /\ calls' = <<>>
    /\ UNCHANGED <<err, entity, freq, startDate, endDate, pub, rateDb, currDb, nextId,
                   run, idx, newItems, updatedItems, deletedItems, swapVars, fillVars>>

\* "for key, apiItem := range apiItemsMap": key not found, insert
CurrInsert ==
    /\ pc = "curr_api"
    /\ \E key \in todo, ok \in BOOLEAN :
         /\ key \notin DOMAIN dbItemsMap
         /\ calls' = Append(calls, [op |-> "insert", id |-> 0, ok |-> ok])
         /\ currDb' = IF ok THEN CurrInsertRow(currDb, apiItemsMap[key], nextId)
                      ELSE currDb
         /\ nextId' = IF ok THEN nextId + 1 ELSE nextId
         /\ todo' = todo \ {key}
         /\ err' = IF ok THEN err ELSE "itemStore.Insert failed"
         /\ pc' = AfterCall(ok, "curr_api")
    /\ UNCHANGED <<entity, freq, startDate, endDate, pub, rateDb, run, idx,
                   diffVars, swapVars, fillVars>>

\* key found, values differ: update
CurrUpdate ==
    /\ pc = "curr_api"
    /\ \E key \in todo, ok \in BOOLEAN :
         /\ key \in DOMAIN dbItemsMap
         /\ ~CurrEqual(apiItemsMap[key], dbItemsMap[key])
         /\ calls' = Append(calls, [op |-> "update", id |-> dbItemsMap[key].Id,
                                    ok |-> ok])
         /\ currDb' = IF ok THEN CurrUpdateRow(currDb, apiItemsMap[key],
                                               dbItemsMap[key].Id)
                      ELSE currDb
         /\ todo' = todo \ {key}
         /\ err' = IF ok THEN err ELSE "itemStore.Update failed"
         /\ pc' = AfterCall(ok, "curr_api")
    /\ UNCHANGED <<entity, freq, startDate, endDate, pub, rateDb, nextId, run, idx,
                   diffVars, swapVars, fillVars>>

\* key found, values equal
CurrKeep ==
    /\ pc = "curr_api"
    /\ \E key \in todo :
         /\ key \in DOMAIN dbItemsMap
         /\ CurrEqual(apiItemsMap[key], dbItemsMap[key])
         /\ todo' = todo \ {key}
    /\ UNCHANGED <<pc, err, entity, freq, startDate, endDate, pub, rateDb, currDb,
                   nextId, run, idx, calls, diffVars, swapVars, fillVars>>

CurrApiDone ==
    /\ pc = "curr_api" /\ todo = {}
    /\ pc' = "curr_db"
    /\ todo' = DOMAIN dbItemsMap
    /\ UNCHANGED <<err, entity, freq, startDate, endDate, pub, rateDb, currDb,
                   nextId, run, idx, calls, diffVars, swapVars, fillVars>>

\* "for key, dbItem := range dbItemsMap": key not found, delete
CurrDelete ==
    /\ pc = "curr_db"
    /\ \E key \in todo, ok \in BOOLEAN :
         /\ key \notin DOMAIN apiItemsMap
         /\ calls' = Append(calls, [op |-> "delete", id |-> dbItemsMap[key].Id,
                                    ok |-> ok])
         /\ currDb' = IF ok THEN DeleteRow(currDb, dbItemsMap[key].Id) ELSE currDb
         /\ todo' = todo \ {key}
         /\ err' = IF ok THEN err ELSE "itemStore.Delete failed"
         /\ pc' = AfterCall(ok, "curr_db")
    /\ UNCHANGED <<entity, freq, startDate, endDate, pub, rateDb, nextId, run, idx,
                   diffVars, swapVars, fillVars>>

CurrDbKeep ==
    /\ pc = "curr_db"
    /\ \E key \in todo :
         /\ key \in DOMAIN apiItemsMap
         /\ todo' = todo \ {key}
    /\ UNCHANGED <<pc, err, entity, freq, startDate, endDate, pub, rateDb, currDb,
                   nextId, run, idx, calls, diffVars, swapVars, fillVars>>

CurrDbDone ==
    /\ pc = "curr_db" /\ todo = {}
    /\ pc' = "done"
    /\ UNCHANGED <<err, syncVars, diffVars, swapVars, fillVars>>

\* the caller runs the same reconciliation again, the API serving the same
NextRun ==
    /\ pc = "done" /\ run < MaxRuns
    /\ run' = run + 1
    /\ pc' = "idle"
    /\ UNCHANGED <<err, entity, freq, startDate, endDate, pub, rateDb, currDb,
                   nextId, idx, todo, calls, diffVars, swapVars, fillVars>>

Next ==
    \/ RatesBegin \/ ApiItemsLoop \/ DbItemsLoop
    \/ RunDelete \/ DeletesDone \/ RunBulkInsert \/ InsertsSkipped
    \/ RunUpdate \/ UpdatesDone
    \/ CurrBegin \/ CurrInsert \/ CurrUpdate \/ CurrKeep \/ CurrApiDone
    \/ CurrDelete \/ CurrDbKeep \/ CurrDbDone
    \/ NextRun

Spec == Init /\ [][Next]_vars

----------------------------------------------------------------------------
(* Snapshot builders over lists that may repeat a natural key:              *)
(* specification SpecSnapshot                                               *)

ServedLines == [Freq : {Daily}, Currency : {ToCurr},
                TimePeriod : {DateFormat(day) : day \in Days}, ObsValue : ApiRates]

\* give the rows of a list the ids 1, 2, ...
Numbered(rows) ==
    [i \in 1..Len(rows) |->
       [Id |-> i, Day |-> rows[i].Day, Frequency |-> Daily, FromCurrencyFk |-> 1,
        Rate |-> rows[i].Rate, ToCurrencyFk |-> 2]]

InitSnapshot ==
    /\ pc = "idle" /\ err = "" /\ entity = "rates" /\ run = 1
    /\ freq = Daily /\ startDate = 0 /\ endDate = MaxDay
    /\ pub \in SeqsUpTo(ServedLines, MaxRows)
    /\ rateDb \in {Numbered(rows) : rows \in SeqsUpTo([Day : Days, Rate : DbRates], MaxRows)}
    /\ currDb = FullCurrDb
    /\ nextId = Len(rateDb) + 1
    /\ idx = 1 /\ todo = {} /\ calls = <<>>
    /\ DiffIdle /\ SwapIdle /\ FillIdle

SpecSnapshot == InitSnapshot /\ [][RatesBegin]_vars

----------------------------------------------------------------------------
(* Carry-forward lookups: specification SpecFill *)

maxDiffDays == 5

\* int(a.Sub(b).Hours() / 24) for two dates a >= b
DiffDays(a, b) == ((a - b) * 24) \div 24

\* "... AND day <= $3 ORDER BY day DESC LIMIT 1" over rows kept day DESC
SelectLatestRows(rows, day) ==
    LET Cond(r) == r.Day <= ParseDate(DateFormat(day))
        found == SelectSeq(rows, Cond)
    IN IF found = <<>> THEN <<>> ELSE <<Head(found)>>

\* SelectLatestDaily rejecting a gap of maxDiffDays too
SelectLatestDaily_RejectsBound(rows, day) ==
    LET its == SelectLatestRows(rows, day)
    IN IF Len(its) = 0 THEN [err |-> "ErrNoRows", item |-> <<>>]
       ELSE IF Len(its) > 1 THEN [err |-> "ErrTooManyRows", item |-> <<>>]
       ELSE IF DiffDays(day, its[1].Day) >= maxDiffDays
         THEN [err |-> "exceeds the max", item |-> <<>>]
       ELSE [err |-> "", item |-> its]

SelectLatestDaily(rows, day) ==
    LET its == SelectLatestRows(rows, day)
    IN IF Len(its) = 0 THEN [err |-> "ErrNoRows", item |-> <<>>]
       ELSE IF Len(its) > 1 THEN [err |-> "ErrTooManyRows", item |-> <<>>]
       ELSE IF DiffDays(day, its[1].Day) > maxDiffDays
         THEN [err |-> "exceeds the max", item |-> <<>>]
       ELSE [err |-> "", item |-> its]

\* "... AND day >= $3 AND day <= $4 ORDER BY day DESC"
SelectRangeRows(rows, start, end) ==
    LET Cond(r) == /\ r.Day >= ParseDate(DateFormat(start - maxDiffDays))
                   /\ r.Day <= ParseDate(DateFormat(end))
    IN SelectSeq(rows, Cond)

\* RangeChecks with the check of the earliest record against startDay moved
\* before the check of the latest record against endDay
RangeChecks_CoverageFirst(its, start, end) ==
    IF Len(its) = 0 THEN "ErrNoRows"
    ELSE IF start < its[Len(its)].Day
      THEN "earliest returned rate is after startDay"
    ELSE IF DiffDays(end, its[1].Day) > maxDiffDays
      THEN "latest rate exceeds the max before endDay"
    ELSE IF DiffDays(start, its[Len(its)].Day) > maxDiffDays
      THEN "earliest rate exceeds the max before startDay"
    ELSE ""

\* the checks of SelectLatestDailyRangeMap before the walk: the error, or ""
RangeChecks(its, start, end) ==
    IF Len(its) = 0 THEN "ErrNoRows"
    ELSE IF DiffDays(end, its[1].Day) > maxDiffDays
      THEN "latest rate exceeds the max before endDay"
    ELSE IF start < its[Len(its)].Day
      THEN "earliest returned rate is after startDay"
    ELSE IF DiffDays(start, its[Len(its)].Day) > maxDiffDays
      THEN "earliest rate exceeds the max before startDay"
    ELSE ""

\* indexes (1-based) of its[al:] whose day prints like day
Matches(its, al, day) ==
    {i \in (al + 1)..Len(its) : DateFormat(day) = DateFormat(its[i].Day)}

\* WalkDay without "activeLatest++"
WalkDay_NoAdvance(its, al, day) ==
    LET m == Matches(its, al, day)
    IN IF m # {}
         THEN [panic |-> FALSE,
               rate |-> its[CHOOSE i \in m : \A j \in m : i <= j].Rate,
               activeLatest |-> al]
       ELSE IF al + 1 > Len(its)
         THEN [panic |-> TRUE, rate |-> 0, activeLatest |-> al]
       ELSE [panic |-> FALSE, rate |-> its[al + 1].Rate, activeLatest |-> al]

\* WalkDay moving the cursor two rows on a match
WalkDay_DoubleAdvance(its, al, day) ==
    LET m == Matches(its, al, day)
    IN IF m # {}
         THEN [panic |-> FALSE,
               rate |-> its[CHOOSE i \in m : \A j \in m : i <= j].Rate,
               activeLatest |-> al + 2]
       ELSE IF al + 1 > Len(its)
         THEN [panic |-> TRUE, rate |-> 0, activeLatest |-> al]
       ELSE [panic |-> FALSE, rate |-> its[al + 1].Rate, activeLatest |-> al]

\* one iteration of "for d := endDay; ..." : the inner scan of items[activeLatest:]
\* and the read of items[activeLatest] when nothing matched (al is 0-based)
WalkDay(its, al, day) ==
    LET m == Matches(its, al, day)
    IN IF m # {}
         THEN [panic |-> FALSE,
               rate |-> its[CHOOSE i \in m : \A j \in m : i <= j].Rate,
               activeLatest |-> al + 1]
       ELSE IF al + 1 > Len(its)
         THEN [panic |-> TRUE, rate |-> 0, activeLatest |-> al]
       ELSE [panic |-> FALSE, rate |-> its[al + 1].Rate, activeLatest |-> al]

\* series of k rows, day DESC, the i-th row with a rate of its own
SeriesOf(days) ==
    [i \in 1..Len(days) |-> [Id |-> i, Day |-> days[i], Rate |-> 100000 + 100 * i]]

InitFill ==
    /\ pc = "idle" /\ err = "" /\ entity = "fill" /\ run = 1
    /\ freq = Daily /\ startDate = 0 /\ endDate = 0
    /\ pub = <<>> /\ rateDb = <<>> /\ currDb = <<>> /\ nextId = 1
    /\ idx = 1 /\ todo = {} /\ calls = <<>>
    /\ DiffIdle /\ SwapIdle
    /\ series \in {SeriesOf(days) : days \in
                     {s \in SeqsUpTo(FillDays, MaxItems) :
                        \A i \in 1..(Len(s) - 1) : s[i] >= s[i + 1]}}
    /\ startDay \in FillDays
    /\ endDay \in startDay..FillMaxDay
    /\ items = <<>> /\ d = 0 /\ activeLatest = 0 /\ rangeMap = EmptyMap
    /\ latestItem = <<>>

\* SelectLatestDaily(day = endDay)
LatestDaily ==
    /\ pc = "idle" /\ entity = "fill"
    /\ LET r == SelectLatestDaily(series, endDay)
       IN /\ err' = r.err
          /\ latestItem' = r.item
          /\ pc' = IF r.err = "" THEN "latest_done" ELSE "latest_failed"
    /\ UNCHANGED <<syncVars, diffVars, swapVars, series, startDay, endDay, items, d,
                   activeLatest, rangeMap>>

\* SelectLatestDailyRangeMap: the query and the checks
FillBegin ==
    /\ pc = "idle" /\ entity = "fill"
    /\ items' = SelectRangeRows(series, startDay, endDay)
    /\ err' = RangeChecks(items', startDay, endDay)
    /\ pc' = IF err' = "" THEN "walk" ELSE "failed"
    /\ d' = endDay
    /\ activeLatest' = 0
    /\ rangeMap' = EmptyMap
    /\ UNCHANGED <<syncVars, diffVars, swapVars, series, startDay, endDay, latestItem>>

\* one day of the walk from endDay down to startDay
FillDay ==
    /\ pc = "walk" /\ ~(d < startDay)
    /\ LET w == WalkDay(items, activeLatest, d)
       IN IF w.panic
            THEN /\ err' = "panic: index out of range"
                 /\ pc' = "failed"
                 /\ UNCHANGED <<activeLatest, rangeMap, d>>
            ELSE /\ activeLatest' = w.activeLatest
                 /\ rangeMap' = MapPut(rangeMap, DateFormat(d), w.rate)
                 /\ d' = d - 1
                 /\ UNCHANGED <<pc, err>>
    /\ UNCHANGED <<syncVars, diffVars, swapVars, series, startDay, endDay, items,
                   latestItem>>

FillReturn ==
    /\ pc = "walk" /\ d < startDay
    /\ pc' = "done"
    /\ UNCHANGED <<err, syncVars, diffVars, swapVars, fillVars>>

NextFill == LatestDaily \/ FillBegin \/ FillDay \/ FillReturn

SpecFill == InitFill /\ [][NextFill]_vars

\* a call of SelectLatestDailyRangeMap runs on until it returns
SpecFillLive == SpecFill /\ WF_vars(FillDay) /\ WF_vars(FillReturn)

----------------------------------------------------------------------------
(* Properties of the diff *)

DiffDone == pc \in {"swap_api", "swap_db", "swap_done"}

BothKeys == (DOMAIN apiItemsMap) \cap (DOMAIN dbItemsMap)

ChangedKeys == {k \in BothKeys : ~RateEqual(apiItemsMap[k], dbItemsMap[k])}

\* C2: every natural key of either snapshot is in at most one of newItems,
\* updatedItems, deletedItems (in none: unchanged), each collection holds a
\* key once, and the collections hold no other key.
C2_DiffPartition ==
    DiffDone =>
      LET N == NewKeys(newItems)
          U == UpdKeys(updatedItems)
          D == DelKeys(deletedItems)
      IN /\ N \cap U = {} /\ N \cap D = {} /\ U \cap D = {}
         /\ (N \cup U \cup D) \subseteq ((DOMAIN apiItemsMap) \cup (DOMAIN dbItemsMap))
         /\ Len(newItems) = Cardinality(N)
         /\ Len(deletedItems) = Cardinality(D)
         /\ Cardinality(DOMAIN updatedItems) = Cardinality(U)
         /\ \A k \in BothKeys \ ChangedKeys : k \notin (N \cup U \cup D)

C2_Witness ==
    /\ DiffDone
    /\ newItems # <<>> /\ deletedItems # <<>> /\ updatedItems # EmptyMap

\* C3: newItems is the API records whose key the store lacks, deletedItems
\* the store records whose key the API lacks, updatedItems has one entry per
\* key in both with unequal records: store id -> API field values.
C3_DiffReference ==
    DiffDone =>
      /\ Range(newItems) =
           {InputOf(apiItemsMap[k]) : k \in (DOMAIN apiItemsMap) \ (DOMAIN dbItemsMap)}
      /\ Len(newItems) = Cardinality((DOMAIN apiItemsMap) \ (DOMAIN dbItemsMap))
      /\ Range(deletedItems) =
           {dbItemsMap[k] : k \in (DOMAIN dbItemsMap) \ (DOMAIN apiItemsMap)}
      /\ Len(deletedItems) = Cardinality((DOMAIN dbItemsMap) \ (DOMAIN apiItemsMap))
      /\ DOMAIN updatedItems = {dbItemsMap[k].Id : k \in ChangedKeys}
      /\ Cardinality(DOMAIN updatedItems) = Cardinality(ChangedKeys)
      /\ \A k \in ChangedKeys :
           updatedItems[dbItemsMap[k].Id] = InputOf(apiItemsMap[k])
      /\ (apiItemsMap = EmptyMap =>
            /\ newItems = <<>> /\ updatedItems = EmptyMap
            /\ Range(deletedItems) = {dbItemsMap[k] : k \in DOMAIN dbItemsMap})

\* an empty source over a store of two rows or more
C3_Witness ==
    /\ DiffDone
    /\ apiItemsMap = EmptyMap
    /\ Len(deletedItems) >= 2

\* C4 as stated: exchanging the snapshots exchanges the keys of newItems and
\* deletedItems and keeps the key set of updatedItems.
C4_SwapSymmetry ==
    pc = "swap_done" =>
      /\ NewKeys(swNewItems) = DelKeys(deletedItems)
      /\ DelKeys(swDeletedItems) = NewKeys(newItems)
      /\ UpdKeys(swUpdatedItems) = UpdKeys(updatedItems)

\* C4 amended: the keys of newItems and deletedItems are exchanged; the
\* exchanged diff files every update under the id of an API-built record,
\* which is 0, so it keeps one update entry only: its key set is a subset of
\* the original one, not empty when the original is not, and equal when at
\* most one key needs an update.
C4_SwapSymmetryAmended ==
    pc = "swap_done" =>
      /\ NewKeys(swNewItems) = DelKeys(deletedItems)
      /\ DelKeys(swDeletedItems) = NewKeys(newItems)
      /\ UpdKeys(swUpdatedItems) \subseteq UpdKeys(updatedItems)
      /\ DOMAIN swUpdatedItems \subseteq {0}
      /\ (updatedItems # EmptyMap => swUpdatedItems # EmptyMap)
      /\ (Cardinality(UpdKeys(updatedItems)) <= 1 =>
            UpdKeys(swUpdatedItems) = UpdKeys(updatedItems))

C4_Witness ==
    /\ pc = "swap_done"
    /\ Cardinality(UpdKeys(updatedItems)) >= 2
    /\ Cardinality(UpdKeys(swUpdatedItems)) = 1
    /\ newItems # <<>> /\ swDeletedItems # <<>>

----------------------------------------------------------------------------
(* Properties of the reconciliation runs *)

\* C1: a run that follows a run completed without error, with the same
\* parameters and the same API answer, finds nothing to insert, update or
\* delete and calls no mutator.
C1_Idempotence ==
    (run >= 2 /\ pc # "idle") =>
      /\ calls = <<>>
      /\ newItems = <<>> /\ updatedItems = EmptyMap /\ deletedItems = <<>>

OpRank(op) == CASE op = "delete" -> 1 [] op = "insert" -> 2 [] OTHER -> 3

\* C5 as stated: in a run every delete call precedes every insert call and
\* every insert call precedes every update call, for both entity types.
C5_PhaseOrder ==
    \A i, j \in 1..Len(calls) : i < j => OpRank(calls[i].op) <= OpRank(calls[j].op)

\* C5 amended: EcbExchangeRates calls deletes, then the bulk insert, then
\* updates; EcbCurrencies calls inserts and updates in one pass, in map
\* order, and every delete after them.
C5_PhaseOrderAmended ==
    /\ entity = "rates" =>
         \A i, j \in 1..Len(calls) : i < j => OpRank(calls[i].op) <= OpRank(calls[j].op)
    /\ entity = "currencies" =>
         \A i, j \in 1..Len(calls) : (i < j /\ calls[i].op = "delete") => calls[j].op = "delete"

C5_Witness ==
    /\ entity = "currencies" /\ pc = "done" /\ Len(calls) = 3
    /\ {calls[i].op : i \in 1..Len(calls)} = {"insert", "update", "delete"}

\* C6: once a mutator call has failed the run is over: the failing call
\* changes no table, the run holds the error, and no step after it calls a
\* mutator or changes a table, so what was applied before stays.
C6_AbortOnFailure ==
    [][/\ err # "" => /\ calls' = calls /\ rateDb' = rateDb /\ currDb' = currDb
                      /\ err' = err /\ pc' = pc
       /\ (Len(calls') = Len(calls) + 1 /\ ~calls'[Len(calls')].ok) =>
            /\ err' # "" /\ pc' = "failed"
            /\ rateDb' = rateDb /\ currDb' = currDb]_vars

\* a delete was applied, then an update failed
C6_Witness ==
    /\ pc = "failed" /\ Len(calls) >= 2
    /\ calls[1].op = "delete" /\ calls[1].ok
    /\ calls[Len(calls)].op = "update" /\ ~calls[Len(calls)].ok
    /\ deletedItems[1] \notin Range(rateDb)

Collides(list) ==
    \E i, j \in 1..Len(list) :
       /\ i < j /\ list[i] # list[j]
       /\ NaturalKey(list[i].Day, list[i].ToCurrencyFk)
            = NaturalKey(list[j].Day, list[j].ToCurrencyFk)

\* C7: both snapshots are built without an error only from lists in which no
\* two distinct records have the same natural key.
C7_KeyCollisionFails ==
    pc = "api_loop" =>
      /\ ~Collides(GetExchangeRates(pub, BaseCurr, freq, startDate, endDate,
                                    SelectCodeIdMap(currDb)).items)
      /\ ~Collides(RateSelect(rateDb, currDb, BaseCurr, freq, startDate, endDate))

----------------------------------------------------------------------------
(* Properties of the carry-forward lookups *)

FillOk == entity = "fill" /\ pc = "done"

RangeDays == startDay..endDay

DistinctDays(rows) ==
    \A i, j \in 1..Len(rows) : i # j => rows[i].Day # rows[j].Day

\* C8: in a result of the range fill the value of every day is the value of
\* a point of the series that lies at most maxDiffDays before that day
\* (stated for the series that hold one point a day at most).
C8_PerDayStaleness ==
    (FillOk /\ DistinctDays(series)) =>
      \A day \in RangeDays :
        \E i \in 1..Len(series) :
          /\ series[i].Day <= day
          /\ day - series[i].Day <= maxDiffDays
          /\ DateFormat(day) \in DOMAIN rangeMap
          /\ rangeMap[DateFormat(day)] = series[i].Rate

\* the value of the most recent point of the series at or before day
LatestRateBefore(rows, day) ==
    (CHOOSE r \in Range(rows) :
        /\ r.Day <= day
        /\ \A q \in Range(rows) : q.Day <= day => q.Day <= r.Day).Rate

\* C9: for a series with distinct days a result of the range fill has one
\* entry for each day of [startDay, endDay] and no other, and the value of a
\* day is the value of the most recent point at or before it.
C9_RangeFillResult ==
    (FillOk /\ DistinctDays(series)) =>
      /\ DOMAIN rangeMap = {DateFormat(day) : day \in RangeDays}
      /\ Cardinality(DOMAIN rangeMap) = endDay - startDay + 1
      /\ \A day \in RangeDays :
           /\ \E r \in Range(series) : r.Day <= day
           /\ rangeMap[DateFormat(day)] = LatestRateBefore(series, day)

\* three points, one of them inside the range, and days without a point
C9_Witness ==
    /\ FillOk /\ DistinctDays(series)
    /\ Len(items) = 3
    /\ endDay - startDay >= 3
    /\ \E i \in 1..Len(items) : startDay < items[i].Day /\ items[i].Day < endDay
    /\ \E day \in RangeDays : \A i \in 1..Len(items) : items[i].Day # day

\* C10: the point lookup fails with no row when the series has no point at or
\* before the day, fails when the most recent such point is more than
\* maxDiffDays before the day, and else returns a most recent such point.
C10_PointLookup ==
    pc \in {"latest_done", "latest_failed"} =>
      LET cands == {r \in Range(series) : r.Day <= endDay}
          IsLatest(r) == \A q \in cands : q.Day <= r.Day
      IN /\ cands = {} => (pc = "latest_failed" /\ err = "ErrNoRows")
         /\ cands # {} =>
              \E r \in cands :
                 /\ IsLatest(r)
                 /\ endDay - r.Day > maxDiffDays =>
                      (pc = "latest_failed" /\ err = "exceeds the max")
                 /\ endDay - r.Day <= maxDiffDays =>
                      (pc = "latest_done" /\ err = "" /\ latestItem = <<r>>)

\* a point exactly maxDiffDays before the day is returned
C10_Witness ==
    /\ pc = "latest_done"
    /\ Len(series) >= 2
    /\ endDay - latestItem[1].Day = maxDiffDays

\* the rows of the series from maxDiffDays before startDay up to endDay
Fetched ==
    LET InWindow(r) == startDay - maxDiffDays <= r.Day /\ r.Day <= endDay
    IN SelectSeq(series, InWindow)

\* the rejection the range fill owes for its arguments, "" when it owes none
Rejection ==
    LET pts == Fetched
        newest == pts[1].Day
        oldest == pts[Len(pts)].Day
    IN IF Len(pts) = 0 THEN "ErrNoRows"
       ELSE IF endDay - newest > maxDiffDays
         THEN "latest rate exceeds the max before endDay"
       ELSE IF startDay < oldest
         THEN "earliest returned rate is after startDay"
       ELSE IF startDay - oldest > maxDiffDays
         THEN "earliest rate exceeds the max before startDay"
       ELSE ""

FillCalled == entity = "fill" /\ pc \in {"walk", "done", "failed"}

\* C11: the range fill returns an error and no map when the fetched rows are
\* none, else when endDay lies more than maxDiffDays after the newest row,
\* else when startDay lies before the oldest row, else when startDay lies more
\* than maxDiffDays after the oldest row, the first of these that applies
\* deciding the error; in every other case, gaps of exactly maxDiffDays
\* included, it does not fail and returns a map with every day of the range.
C11_RangeValidation ==
    FillCalled =>
      /\ Rejection # "" => (pc = "failed" /\ err = Rejection /\ rangeMap = EmptyMap)
      /\ Rejection = "" => (pc # "failed" /\ err = "")
      /\ (Rejection = "" /\ pc = "done") =>
            DOMAIN rangeMap = {DateFormat(day) : day \in RangeDays}

\* rejected for a start before the oldest row, the newest row lying exactly
\* maxDiffDays before endDay
C11_Witness ==
    /\ FillCalled /\ pc = "failed"
    /\ err = "earliest returned rate is after startDay"
    /\ endDay - items[1].Day = maxDiffDays
    /\ startDay < items[Len(items)].Day

\* no row of items[activeLatest:] is of day d
NoMatch ==
    \A i \in (activeLatest + 1)..Len(items) : items[i].Day # d

\* C12: in a walk of the range fill, over rows with repeated days too, the
\* cursor activeLatest is below len(items) whenever items[activeLatest] is
\* read for a day without a matching row, no read is out of range, and the
\* walk ends after endDay - startDay + 1 iterations.
C12_CursorBounds ==
    /\ [](entity = "fill" =>
            /\ err # "panic: index out of range"
            /\ (pc = "walk" /\ d >= startDay /\ NoMatch) =>
                  activeLatest < Len(items)
            /\ pc \in {"walk", "done"} =>
                  /\ activeLatest <= Len(items)
                  /\ startDay - 1 <= d /\ d <= endDay
                  /\ Cardinality(DOMAIN rangeMap) = endDay - d
            /\ pc = "done" => endDay - d = endDay - startDay + 1)
    /\ ((entity = "fill" /\ pc = "walk") ~> (pc = "done"))

\* rows with a repeated day, the cursor moved by a match, and the day startDay
\* read from items[activeLatest] without a match
C12_Witness ==
    /\ FillOk
    /\ ~DistinctDays(items)
    /\ activeLatest >= 1
    /\ \A i \in 1..Len(items) : items[i].Day # startDay
    /\ rangeMap[DateFormat(startDay)] = items[activeLatest + 1].Rate

====
